---- MODULE Spec2Model ----
(***************************************************************************)
(* The recipe-request orchestration of the two App components of the       *)
(* repository:                                                             *)
(*   - src/unnamed/part_000: the App with a user-configurable API key      *)
(*     (variant "keyed"): text call first, then the image call;            *)
(*   - src/index.tsx: the App that reads the key from process.env.API_KEY  *)
(*     (variant "env"): text and image calls issued together and awaited   *)
(*     with Promise.all.                                                   *)
(* One step of the model is one run of JavaScript to its next await: a     *)
(* user event handler, the mount effect, or the continuation of a settled  *)
(* provider call.                                                          *)
(*                                                                         *)
(* Strings are sequences of characters; null, undefined and '' (all falsy  *)
(* in the code's tests) are the empty sequence.  An optional object        *)
(* (recipe, a response not yet received) is <<>> or <<value>>.             *)
(***************************************************************************)
EXTENDS Naturals, Sequences, FiniteSets, Bags, TLC

\* ------------------------------------------------------------- bounds
MaxSearches == 2      \* handleSearch invocations suspended at the same time

\* ------------------------------------------------------------ strings
\* the texts typed in the query input, the main-ingredient input and the API
\* key input: empty, blank, plain, and padded with blanks
QueryTexts == {<<>>, <<" ">>, <<"a">>}
IngredientTexts == {<<>>, <<"a">>}
KeyTexts == {<<>>, <<" ">>, <<" ", "p", " ">>}

RECURSIVE TrimStart(_)
TrimStart(s) ==
    IF s # <<>> /\ Head(s) = " " THEN TrimStart(Tail(s)) ELSE s

RECURSIVE TrimEnd(_)
TrimEnd(s) ==
    IF s # <<>> /\ s[Len(s)] = " " THEN TrimEnd(SubSeq(s, 1, Len(s) - 1)) ELSE s

\* String.prototype.trim
Trim(s) == TrimEnd(TrimStart(s))

\* String.prototype.includes, on a message held as a sequence of tokens
Includes(msg, tok) == \E i \in DOMAIN msg : msg[i] = tok

\* ------------------------------------------------------ provider data
RequiredFields == {"title", "summary", "ingredients", "steps"}

OptionalFields ==
    {"cuisine", "difficulty", "totalTime", "calories", "rating", "reviewCount"}

FieldValue(f) ==
    CASE f = "title" -> "Mapo Tofu"
      [] f = "summary" -> "from Xiaohongshu"
      [] f = "ingredients" -> <<"tofu">>
      [] f = "steps" -> <<"fry">>
      [] OTHER -> f

Doc(fields) == [f \in fields |-> FieldValue(f)]

\* a body with every required field and no optional one, and a body without
\* its title
RequiredDoc == Doc(RequiredFields)
NoTitleDoc == Doc((RequiredFields \ {"title"}) \cup {"cuisine"})
EmptyDoc == Doc({})

\* textResponse.text: a JSON document, text that is not JSON, or nothing
JsonText(doc) == <<"json", doc>>
MalformedText == <<"malformed">>
EmptyText == <<>>

\* textResponse.text holding the JSON value null
NullText == <<"null">>

TextBodies ==
    {JsonText(RequiredDoc), JsonText(NoTitleDoc), MalformedText, EmptyText,
     NullText}

\* err.message of a rejected text call (<<>>: an error without a message)
ErrMessages == {<<"403">>, <<"API_KEY_INVALID">>, <<"429">>, <<"500">>, <<>>}

\* imageResponse: a candidate with an inlineData part, or no candidate parts
InlineImage == <<"inline", "image/png", "QUJD">>
NoParts == <<"noparts">>
ImageResponses == {InlineImage, NoParts}

Undefined == <<>>
Null == <<>>
Some(x) == <<x>>

\* ------------------------------------------------------------- filters
FilterKeys == {"cuisine", "timeLimit", "difficulty", "mainIngredient"}

EmptyFilters == [k \in FilterKeys |-> <<>>]

\* The vocabulary of the filter chips (two values a key, so that one can
\* replace the other); the main ingredient is free text.
ChipValues(k) ==
    CASE k = "cuisine" -> {<<"c1">>, <<"c2">>}
      [] k = "timeLimit" -> {<<"t1">>, <<"t2">>}
      [] k = "difficulty" -> {<<"d1">>, <<"d2">>}
      [] OTHER -> {}

\* --------------------------------------------------------------- state
VARIABLES
    variant,        \* "keyed": src/unnamed/part_000, "env": src/index.tsx
    envKey,         \* process.env.API_KEY
    localStorage,   \* the 'gemini_api_key' slot of localStorage
    mounted,        \* the mount effect of the keyed App has run
    query, filters, loading, recipe, error,     \* useState of both Apps
    apiKey, showSettings,                       \* useState of the keyed App
    pending,        \* the bag of handleSearch invocations suspended at an await
    calls,          \* the generateContent calls issued by the last step
    lastKeyOp,      \* the last handleSaveKey / handleClearKey invocation
    last,           \* the step that led to this state
    relay           \* the relay endpoint and the request it is serving

vars == <<variant, envKey, localStorage, mounted, query, filters, loading,
          recipe, error, apiKey, showSettings, pending, calls,
          lastKeyOp, last, relay>>

\* ------------------------------------------------------------ messages
ErrValidation == <<"enter a dish name or a main ingredient">>
ErrInvalidKey == <<"API Key invalid, check the settings">>
ErrRateLimited == <<"too many requests, retry later">>
ErrGenerationPrefix == <<"generation failed: ">>
ErrUnknown == <<"unknown error">>
ErrGeneric == <<"generation failed, check the network or retry">>

\* `生成失败: ${err.message || '未知错误'}`
ErrGeneration(msg) == ErrGenerationPrefix \o (IF msg # <<>> THEN msg ELSE ErrUnknown)

\* ---------------------------------------------------------------- steps
\* op: the handler or continuation that ran; res: the branch it took; text,
\* image: the two calls of the search it belongs to, after the step ("",
\* "pending", "ok", "rejected"); arg: the handler's input
Step(op, res, text, image, arg) ==
    [op |-> op, res |-> res, text |-> text, image |-> image, arg |-> arg]

UiStep(op, arg) == Step(op, "", "", "", arg)

\* a handleSaveKey(text) or handleClearKey invocation
KeyOp(op, text) == [op |-> op, text |-> text]

\* ------------------------------------------------- the relay endpoint
\* src/api/chat.js and src/unnamed/part_001: one handler(req) at a time.
\* Bodies are sequences of tokens; an optional value is <<>> or <<value>>.
RelayFiles == {"chat.js", "part_001"}

\* the endpoint between two requests
RelayIdle(file) ==
    [file |-> file, pc |-> "idle", method |-> "", forwarded |-> <<>>,
     upstream |-> <<>>, response |-> <<>>]

\* useState initial values
FreshState ==
    /\ query = <<>>
    /\ filters = EmptyFilters
    /\ loading = FALSE
    /\ recipe = Null
    /\ error = Null
    /\ apiKey = <<>>
    /\ showSettings = FALSE
    /\ pending = EmptyBag

Init ==
    /\ variant \in {"keyed", "env"}
    /\ envKey \in {<<>>, <<"e">>}
    /\ localStorage \in (IF variant = "keyed" THEN {<<>>, <<"p">>} ELSE {<<>>})
    /\ mounted = (variant = "env")
    /\ FreshState
    /\ calls = {}
    /\ lastKeyOp = KeyOp("none", <<>>)
    /\ last = UiStep("init", <<>>)
    /\ relay = RelayIdle("chat.js")

\* ------------------------------------------------------- provider calls
\* One ai.models.generateContent call: the model family, the key of the
\* client, and the query and main ingredient of the handleSearch invocation.
Call(kind, key, q, m) ==
    [kind |-> kind, key |-> key, query |-> q, mainIngredient |-> m]

\* A handleSearch invocation suspended at an await, with what its closure
\* holds and the text and image calls it has issued so far.
Search(key, q, m, pc, nText, nImage) ==
    [key |-> key, query |-> q, mainIngredient |-> m, pc |-> pc,
     data |-> Null, textResponse |-> Null, imageResponse |-> Null,
     nText |-> nText, nImage |-> nImage]

Suspend(s) == pending (+) SetToBag({s})
Resume(s) == pending (-) SetToBag({s})
InFlight == BagCardinality(pending)

\* JSON.parse: value holds the members of the parsed object, none for null
JSONparse(text) ==
    IF text # <<>> /\ text[1] = "json"
    THEN [ok |-> TRUE, null |-> FALSE, value |-> text[2]]
    ELSE IF text = NullText
         THEN [ok |-> TRUE, null |-> TRUE, value |-> EmptyDoc]
         ELSE [ok |-> FALSE, null |-> FALSE, value |-> EmptyDoc]

\* `data:${part.inlineData.mimeType};base64,${part.inlineData.data}` of the first
\* part with inlineData, undefined without one
ImageUrl(imageResponse) ==
    IF imageResponse[1] = "inline"
    THEN <<"data:", imageResponse[2], ";base64,", imageResponse[3]>>
    ELSE Undefined

\* { ...data, imageUrl: generatedImageUrl }
Merge(data, imageUrl) ==
    [f \in DOMAIN data \cup {"imageUrl"} |->
        IF f = "imageUrl" THEN imageUrl ELSE data[f]]

\* ------------------------------------------- the keyed App (part_000)
Static == UNCHANGED <<variant, envKey, relay>>

NoCall == calls' = {}

\* the startup resolution with the two sources consulted in the other order
LoadKeyEnvFirst ==
    /\ variant = "keyed"
    /\ ~mounted
    /\ mounted' = TRUE
    /\ IF envKey # <<>>
       THEN apiKey' = envKey /\ UNCHANGED showSettings
       ELSE IF localStorage # <<>>
            THEN apiKey' = localStorage /\ UNCHANGED showSettings
            ELSE showSettings' = TRUE /\ UNCHANGED apiKey
    /\ last' = UiStep("load", <<>>)
    /\ NoCall /\ Static
    /\ UNCHANGED <<localStorage, query, filters, loading, recipe, error,
                   pending, lastKeyOp>>

\* useEffect(() => {...}, []): resolve the key at startup
LoadKey ==
    /\ variant = "keyed"
    /\ ~mounted
    /\ mounted' = TRUE
    /\ IF localStorage # <<>>
       THEN apiKey' = localStorage /\ UNCHANGED showSettings
       ELSE IF envKey # <<>>
            THEN apiKey' = envKey /\ UNCHANGED showSettings
            ELSE showSettings' = TRUE /\ UNCHANGED apiKey
    /\ last' = UiStep("load", <<>>)
    /\ NoCall /\ Static
    /\ UNCHANGED <<localStorage, query, filters, loading, recipe, error,
                   pending, lastKeyOp>>

\* the submit handler testing the typed text instead of the trimmed one
handleSaveKeyUnchecked(text) ==
    /\ variant = "keyed" /\ mounted /\ showSettings
    /\ LET input == Trim(text) IN
       IF text # <<>>
       THEN /\ localStorage' = input
            /\ apiKey' = input
            /\ showSettings' = FALSE
            /\ error' = Null
       ELSE UNCHANGED <<localStorage, apiKey, showSettings, error>>
    /\ lastKeyOp' = KeyOp("save", text)
    /\ last' = UiStep("handleSaveKey", text)
    /\ NoCall /\ Static
    /\ UNCHANGED <<mounted, query, filters, loading, recipe, pending>>

\* the submit handler of the settings form, on the text of #apiKeyInput
handleSaveKey(text) ==
    /\ variant = "keyed" /\ mounted /\ showSettings
    /\ LET input == Trim(text) IN
       IF input # <<>>
       THEN /\ localStorage' = input
            /\ apiKey' = input
            /\ showSettings' = FALSE
            /\ error' = Null
       ELSE UNCHANGED <<localStorage, apiKey, showSettings, error>>
    /\ lastKeyOp' = KeyOp("save", text)
    /\ last' = UiStep("handleSaveKey", text)
    /\ NoCall /\ Static
    /\ UNCHANGED <<mounted, query, filters, loading, recipe, pending>>

\* the clear button forgetting localStorage.removeItem
handleClearKeyStateOnly ==
    /\ variant = "keyed" /\ mounted /\ showSettings
    /\ apiKey # <<>>
    /\ apiKey' = <<>>
    /\ lastKeyOp' = KeyOp("clear", <<>>)
    /\ last' = UiStep("handleClearKey", <<>>)
    /\ NoCall /\ Static
    /\ UNCHANGED <<localStorage, mounted, query, filters, loading, recipe, error,
                   showSettings, pending>>

\* the clear button falling back to the environment key
handleClearKeyToEnv ==
    /\ variant = "keyed" /\ mounted /\ showSettings
    /\ apiKey # <<>>
    /\ localStorage' = <<>>
    /\ apiKey' = envKey
    /\ lastKeyOp' = KeyOp("clear", <<>>)
    /\ last' = UiStep("handleClearKey", <<>>)
    /\ NoCall /\ Static
    /\ UNCHANGED <<mounted, query, filters, loading, recipe, error,
                   showSettings, pending>>

\* the "clear local key" button, rendered while a key is held
handleClearKey ==
    /\ variant = "keyed" /\ mounted /\ showSettings
    /\ apiKey # <<>>
    /\ localStorage' = <<>>
    /\ apiKey' = <<>>
    /\ lastKeyOp' = KeyOp("clear", <<>>)
    /\ last' = UiStep("handleClearKey", <<>>)
    /\ NoCall /\ Static
    /\ UNCHANGED <<mounted, query, filters, loading, recipe, error,
                   showSettings, pending>>

\* the header's settings button and the modal's close button
SetShowSettings(b) ==
    /\ variant = "keyed" /\ mounted
    /\ showSettings = ~b
    /\ showSettings' = b
    /\ last' = UiStep("setShowSettings", <<>>)
    /\ NoCall /\ Static
    /\ UNCHANGED <<localStorage, mounted, query, filters, loading, recipe,
                   error, apiKey, pending, lastKeyOp>>

\* handleSearch up to its first await.  The three branches are the two early
\* returns and the issue of the text call.
handleSearchConfig ==
    /\ apiKey = <<>>
    /\ showSettings' = TRUE
    /\ last' = Step("handleSearch", "config", "", "", <<>>)
    /\ NoCall
    /\ UNCHANGED <<loading, error, recipe, pending>>

\* the validation branch returning without setError
handleSearchInvalidSilent ==
    /\ apiKey # <<>>
    /\ Trim(query) = <<>> /\ filters.mainIngredient = <<>>
    /\ last' = Step("handleSearch", "validation", "", "", <<>>)
    /\ NoCall
    /\ UNCHANGED <<loading, recipe, error, showSettings, pending>>

handleSearchInvalid ==
    /\ apiKey # <<>>
    /\ Trim(query) = <<>> /\ filters.mainIngredient = <<>>
    /\ error' = ErrValidation
    /\ last' = Step("handleSearch", "validation", "", "", <<>>)
    /\ NoCall
    /\ UNCHANGED <<loading, recipe, showSettings, pending>>

handleSearchIssue ==
    /\ apiKey # <<>>
    /\ ~(Trim(query) = <<>> /\ filters.mainIngredient = <<>>)
    /\ InFlight < MaxSearches
    /\ loading' = TRUE
    /\ error' = Null
    /\ recipe' = Null
    /\ pending' =
           Suspend(Search(apiKey, query, filters.mainIngredient, "awaitText", 1, 0))
    /\ calls' = {Call("text", apiKey, query, filters.mainIngredient)}
    /\ last' = Step("handleSearch", "issued", "pending", "", <<>>)
    /\ UNCHANGED showSettings

handleSearch ==
    /\ variant = "keyed" /\ mounted
    /\ \/ handleSearchConfig
       \/ handleSearchInvalid
       \/ handleSearchIssue
    /\ Static
    /\ UNCHANGED <<localStorage, mounted, query, filters, apiKey, lastKeyOp>>

\* catch (err) {...} finally { setLoading(false) } of the keyed App
Catch(s, msg, op, text, image) ==
    /\ IF Includes(msg, "403") \/ Includes(msg, "API_KEY_INVALID")
       THEN /\ error' = ErrInvalidKey
            /\ showSettings' = TRUE
            /\ last' = Step(op, "InvalidCredential", text, image, msg)
       ELSE IF Includes(msg, "429")
            THEN /\ error' = ErrRateLimited
                 /\ UNCHANGED showSettings
                 /\ last' = Step(op, "RateLimited", text, image, msg)
            ELSE /\ error' = ErrGeneration(msg)
                 /\ UNCHANGED showSettings
                 /\ last' = Step(op, "GenerationFailure", text, image, msg)
    /\ loading' = FALSE
    /\ pending' = Resume(s)
    /\ NoCall
    /\ UNCHANGED recipe

\* what the continuations of a search leave alone
SettleFrame ==
    /\ Static
    /\ UNCHANGED <<localStorage, mounted, query, filters, apiKey, lastKeyOp>>

\* setRecipe({ ...data, imageUrl }) and finally { setLoading(false) }
Finish(s, data, imageUrl, op, image) ==
    /\ recipe' = Some(Merge(data, imageUrl))
    /\ loading' = FALSE
    /\ pending' = Resume(s)
    /\ last' = Step(op, "recipe", "ok", image, <<>>)
    /\ NoCall
    /\ UNCHANGED <<error, showSettings>>

\* the text call resolves: parse the body, then issue the image call.  With
\* data null, reading data.title for the image prompt throws inside the inner
\* try before the call is made, and the search goes on to setRecipe.
TextResolved(s, body) ==
    /\ variant = "keyed"
    /\ s.pc = "awaitText"
    /\ LET parsed == JSONparse(IF body # <<>> THEN body ELSE JsonText(EmptyDoc)) IN
       IF parsed.ok
       THEN IF parsed.null
            THEN Finish(s, parsed.value, Undefined, "textResolved", "none")
            ELSE /\ pending' = Resume(s) (+) SetToBag(
                        {[s EXCEPT !.pc = "awaitImage", !.data = Some(parsed.value),
                                   !.nImage = @ + 1]})
                 /\ calls' = {Call("image", s.key, s.query, s.mainIngredient)}
                 /\ last' = Step("textResolved", "imageIssued", "ok", "pending", <<>>)
                 /\ UNCHANGED <<loading, recipe, error, showSettings>>
       ELSE Catch(s, <<"SyntaxError">>, "textResolved", "ok", "")
    /\ SettleFrame

\* the rejected text call issued once more after a 429
TextRejectedRetry(s, msg) ==
    /\ variant = "keyed"
    /\ s.pc = "awaitText"
    /\ IF Includes(msg, "429") /\ s.nText = 1
       THEN /\ pending' = Resume(s) (+) SetToBag({[s EXCEPT !.nText = @ + 1]})
            /\ calls' = {Call("text", s.key, s.query, s.mainIngredient)}
            /\ last' = Step("textRejected", "RateLimited", "pending", "", msg)
            /\ UNCHANGED <<loading, recipe, error, showSettings>>
       ELSE Catch(s, msg, "textRejected", "rejected", "")
    /\ SettleFrame

\* the text call rejects with err.message = msg
TextRejected(s, msg) ==
    /\ variant = "keyed"
    /\ s.pc = "awaitText"
    /\ Catch(s, msg, "textRejected", "rejected", "")
    /\ SettleFrame

\* the image call resolves
ImageResolved(s, imageResponse) ==
    /\ variant = "keyed"
    /\ s.pc = "awaitImage"
    /\ Finish(s, s.data[1], ImageUrl(imageResponse), "imageResolved", "ok")
    /\ SettleFrame

\* the image call rejects: catch (imgErr) { console.warn(...) }
ImageRejected(s) ==
    /\ variant = "keyed"
    /\ s.pc = "awaitImage"
    /\ Finish(s, s.data[1], Undefined, "imageRejected", "rejected")
    /\ SettleFrame

\* --------------------------------------------- the env App (index.tsx)
\* the validation branch reached after the previous result was reset
handleSearchParallelInvalidReset ==
    /\ Trim(query) = <<>> /\ filters.mainIngredient = <<>>
    /\ error' = ErrValidation
    /\ recipe' = Null
    /\ last' = Step("handleSearch", "validation", "", "", <<>>)
    /\ NoCall
    /\ UNCHANGED <<loading, pending>>

handleSearchParallelInvalid ==
    /\ Trim(query) = <<>> /\ filters.mainIngredient = <<>>
    /\ error' = ErrValidation
    /\ last' = Step("handleSearch", "validation", "", "", <<>>)
    /\ NoCall
    /\ UNCHANGED <<loading, recipe, pending>>

\* The client is built from process.env.API_KEY as it is, and both requests
\* are issued before the await; nothing after the await reads the client, the
\* query or the filters again.
handleSearchParallelIssue ==
    /\ ~(Trim(query) = <<>> /\ filters.mainIngredient = <<>>)
    /\ InFlight < MaxSearches
    /\ loading' = TRUE
    /\ error' = Null
    /\ recipe' = Null
    /\ pending' = Suspend(Search(<<>>, <<>>, <<>>, "awaitAll", 1, 1))
    /\ calls' = {Call("text", envKey, query, filters.mainIngredient),
                 Call("image", envKey, query, filters.mainIngredient)}
    /\ last' = Step("handleSearch", "issued", "pending", "pending", <<>>)

handleSearchParallel ==
    /\ variant = "env"
    /\ \/ handleSearchParallelInvalid
       \/ handleSearchParallelIssue
    /\ Static
    /\ UNCHANGED <<localStorage, mounted, query, filters, apiKey, showSettings,
                   lastKeyOp>>

\* catch (err) { setError(...) } finally { setLoading(false) } of the env App
CatchParallel(s, op, text, image, msg) ==
    /\ error' = ErrGeneric
    /\ loading' = FALSE
    /\ pending' = Resume(s)
    /\ last' = Step(op, "GenerationFailure", text, image, msg)
    /\ NoCall
    /\ UNCHANGED <<recipe, showSettings>>

\* after Promise.all resolved: steps 3 and 4 of handleSearch and the merge;
\* if (data) skips setRecipe when the body is the JSON value null
Process(s, body, imageResponse, op) ==
    IF body # <<>> /\ JSONparse(body).ok
    THEN /\ IF JSONparse(body).null
            THEN /\ UNCHANGED recipe
                 /\ last' = Step(op, "nothing", "ok", "ok", <<>>)
            ELSE /\ recipe' =
                        Some(Merge(JSONparse(body).value, ImageUrl(imageResponse)))
                 /\ last' = Step(op, "recipe", "ok", "ok", <<>>)
         /\ loading' = FALSE
         /\ pending' = Resume(s)
         /\ NoCall
         /\ UNCHANGED <<error, showSettings>>
    ELSE CatchParallel(s, op, "ok", "ok",
                       IF body # <<>> THEN <<"SyntaxError">>
                       ELSE <<"Text generation failed">>)

TextResolvedParallel(s, body) ==
    /\ variant = "env"
    /\ s.pc = "awaitAll" /\ s.textResponse = Null
    /\ IF s.imageResponse # Null
       THEN Process(s, body, s.imageResponse[1], "textResolved")
       ELSE /\ pending' = Resume(s) (+) SetToBag(
                   {[s EXCEPT !.textResponse = Some(body)]})
            /\ last' = Step("textResolved", "waiting", "ok", "pending", <<>>)
            /\ NoCall
            /\ UNCHANGED <<loading, recipe, error, showSettings>>
    /\ SettleFrame

ImageResolvedParallel(s, imageResponse) ==
    /\ variant = "env"
    /\ s.pc = "awaitAll" /\ s.imageResponse = Null
    /\ IF s.textResponse # Null
       THEN Process(s, s.textResponse[1], imageResponse, "imageResolved")
       ELSE /\ pending' = Resume(s) (+) SetToBag(
                   {[s EXCEPT !.imageResponse = Some(imageResponse)]})
            /\ last' = Step("imageResolved", "waiting", "pending", "ok", <<>>)
            /\ NoCall
            /\ UNCHANGED <<loading, recipe, error, showSettings>>
    /\ SettleFrame

\* Promise.all rejects with the first rejection
TextRejectedParallel(s, msg) ==
    /\ variant = "env"
    /\ s.pc = "awaitAll" /\ s.textResponse = Null
    /\ CatchParallel(s, "textRejected", "rejected",
                     IF s.imageResponse # Null THEN "ok" ELSE "pending", msg)
    /\ SettleFrame

ImageRejectedParallel(s) ==
    /\ variant = "env"
    /\ s.pc = "awaitAll" /\ s.imageResponse = Null
    /\ CatchParallel(s, "imageRejected",
                     IF s.textResponse # Null THEN "ok" ELSE "pending",
                     "rejected", <<>>)
    /\ SettleFrame

\* ------------------------------------------------- inputs of both Apps
InputFrame ==
    /\ NoCall /\ Static
    /\ UNCHANGED <<localStorage, mounted, loading, recipe, error, apiKey,
                   showSettings, pending, lastKeyOp>>

\* onChange of the query input
setQuery(q) ==
    /\ mounted
    /\ q # query
    /\ query' = q
    /\ last' = UiStep("setQuery", <<>>)
    /\ UNCHANGED filters
    /\ InputFrame

\* the chips the user clicks in Spec
ClickedChips == {"cuisine"}
ClickedValues == {<<"c1">>}

\* the chips rendered by each App
Chips == IF variant = "keyed" THEN {"cuisine", "difficulty"}
         ELSE {"cuisine", "timeLimit", "difficulty"}

\* the updater without the test of the active value
ToggledAlwaysSet(prev, key, value) == [prev EXCEPT ![key] = value]

\* setFilters(prev => ({ ...prev, [key]: prev[key] === value ? '' : value }))
Toggled(prev, key, value) ==
    [prev EXCEPT ![key] = IF prev[key] = value THEN <<>> ELSE value]

toggleFilter(key, value) ==
    /\ mounted
    /\ filters' = Toggled(filters, key, value)
    /\ last' = UiStep("toggleFilter", <<key>> \o value)
    /\ UNCHANGED query
    /\ InputFrame

\* onChange of the main-ingredient input (index.tsx only)
setMainIngredient(m) ==
    /\ variant = "env"
    /\ m # filters.mainIngredient
    /\ filters' = [filters EXCEPT !.mainIngredient = m]
    /\ last' = UiStep("setMainIngredient", <<>>)
    /\ UNCHANGED query
    /\ InputFrame

\* The page is loaded again: component state starts afresh, the suspended
\* searches are gone, localStorage stays.
Reload ==
    /\ mounted
    /\ last.op # "reload"
    /\ mounted' = (variant = "env")
    /\ query' = <<>>
    /\ filters' = EmptyFilters
    /\ loading' = FALSE
    /\ recipe' = Null
    /\ error' = Null
    /\ apiKey' = <<>>
    /\ showSettings' = FALSE
    /\ pending' = EmptyBag
    /\ calls' = {}
    /\ last' = UiStep("reload", <<>>)
    /\ Static
    /\ UNCHANGED <<localStorage, lastKeyOp>>

\* ------------------------------------------------------ user triggers
\* the search button: disabled={loading}
ClickSearch ==
    /\ ~loading
    /\ (handleSearch \/ handleSearchParallel)

\* onKeyDown of the query input: e.key === 'Enter' && handleSearch()
PressEnter == handleSearch \/ handleSearchParallel

Next ==
    \/ LoadKey
    \/ \E text \in KeyTexts : handleSaveKey(text)
    \/ handleClearKey
    \/ \E b \in BOOLEAN : SetShowSettings(b)
    \/ ClickSearch
    \/ PressEnter
    \/ \E s \in BagToSet(pending) : \E body \in TextBodies : TextResolved(s, body)
    \/ \E s \in BagToSet(pending) : \E msg \in ErrMessages : TextRejected(s, msg)
    \/ \E s \in BagToSet(pending) : \E r \in ImageResponses : ImageResolved(s, r)
    \/ \E s \in BagToSet(pending) : ImageRejected(s)
    \/ \E s \in BagToSet(pending) : \E body \in TextBodies : TextResolvedParallel(s, body)
    \/ \E s \in BagToSet(pending) : \E msg \in ErrMessages : TextRejectedParallel(s, msg)
    \/ \E s \in BagToSet(pending) : \E r \in ImageResponses : ImageResolvedParallel(s, r)
    \/ \E s \in BagToSet(pending) : ImageRejectedParallel(s)
    \/ \E q \in QueryTexts : setQuery(q)
    \/ \E k \in Chips \cap ClickedChips :
           \E v \in ChipValues(k) \cap ClickedValues : toggleFilter(k, v)
    \/ \E m \in IngredientTexts : setMainIngredient(m)
    \/ Reload

Spec == Init /\ [][Next]_vars

\* =============================================================== claims
\* the credential a search of the running App uses
Credential == IF variant = "keyed" THEN apiKey ELSE envKey

\* C1: every generation call is issued with a non-empty credential and with
\* a non-empty query or a non-empty main ingredient.
C1_CallsHaveCredentialAndSubject ==
    \A c \in calls :
        /\ c.key # <<>>
        /\ (c.query # <<>> \/ c.mainIngredient # <<>>)

\* C2: when the text call of a search has succeeded and its image call
\* fails, the search ends with a recipe whose image slot is absent, and it
\* sets no error.
C2_ImageFailureKeepsRecipe ==
    [][(last'.text = "ok" /\ last'.image = "rejected")
        => /\ last'.res = "recipe"
           /\ recipe' # Null
           /\ recipe'[1].imageUrl = Undefined
           /\ error' = error]_vars

\* C3: at most one search is in flight at any time.
C3_AtMostOneSearchInFlight == InFlight <= 1

\* C4: a search started with an empty query and an empty main ingredient,
\* with a credential held, ends in the validation failure and issues no
\* generation call.
C4_EmptySearchFailsValidation ==
    (/\ last.op = "handleSearch"
     /\ query = <<>> /\ filters.mainIngredient = <<>>
     /\ Credential # <<>>)
        => /\ last.res = "validation"
           /\ error = ErrValidation
           /\ calls = {}

C4_Witness ==
    /\ last.op = "handleSearch"
    /\ query = <<>> /\ filters.mainIngredient = <<>>
    /\ Credential # <<>>
    /\ error = ErrValidation
    /\ calls = {}

\* C5: a search started without a credential puts the App in the
\* configuration-required state and issues no generation call.
C5_NoCredentialOpensSettings ==
    (last.op = "handleSearch" /\ Credential = <<>>)
        => /\ last.res = "config"
           /\ showSettings
           /\ calls = {}

\* C6: when the provider rejects the text call with an authorization error,
\* the error is the invalid-credential one, the settings are opened and the
\* search sets no recipe.
C6_AuthErrorOpensSettings ==
    [][(/\ last'.op = "textRejected"
        /\ (Includes(last'.arg, "403") \/ Includes(last'.arg, "API_KEY_INVALID")))
        => /\ last'.res = "InvalidCredential"
           /\ error' = ErrInvalidKey
           /\ showSettings'
           /\ recipe' = recipe]_vars

\* C7: when the provider rejects the text call with a rate-limit error, the
\* error is the rate-limited one, the credential stays as it is and the
\* settings are not opened.
C7_RateLimitKeepsCredential ==
    [][(/\ last'.op = "textRejected"
        /\ Includes(last'.arg, "429")
        /\ ~Includes(last'.arg, "403")
        /\ ~Includes(last'.arg, "API_KEY_INVALID"))
        => /\ last'.res = "RateLimited"
           /\ error' = ErrRateLimited
           /\ UNCHANGED <<apiKey, localStorage, showSettings>>]_vars

\* C8 as written: for every text, the startup resolution that follows
\* saving it returns the trimmed text; the one that follows a clear returns
\* the environment key, absent when there is none.
C8_RoundTripEveryText ==
    last.op = "load"
        => /\ lastKeyOp.op = "save" => apiKey = Trim(lastKeyOp.text)
           /\ lastKeyOp.op = "clear" => apiKey = envKey

\* C8 amended: for every text that is not empty once trimmed, the startup
\* resolution that follows saving it returns the trimmed text; the one that
\* follows a clear returns the environment key, absent when there is none.
C8_RoundTripNonBlankText ==
    last.op = "load"
        => /\ (lastKeyOp.op = "save" /\ Trim(lastKeyOp.text) # <<>>)
                  => apiKey = Trim(lastKeyOp.text)
           /\ lastKeyOp.op = "clear" => apiKey = envKey

C8_Witness ==
    /\ last.op = "load"
    /\ lastKeyOp = KeyOp("save", <<" ", "p", " ">>)
    /\ envKey = <<"e">>
    /\ apiKey = <<"p">>

\* C9: saving a text that is empty once trimmed leaves the persisted slot,
\* the active credential, the settings and the error as they were; saving
\* any other text persists the trimmed text and makes it the active
\* credential.
C9_SaveRejectsBlank ==
    [][last'.op = "handleSaveKey"
        => IF Trim(last'.arg) = <<>>
           THEN UNCHANGED <<localStorage, apiKey, showSettings, error>>
           ELSE /\ localStorage' = Trim(last'.arg)
                /\ apiKey' = Trim(last'.arg)]_vars

C9_Witness ==
    /\ last.op = "handleSaveKey"
    /\ last.arg = <<" ">>
    /\ localStorage = <<>>
    /\ apiKey = <<"e">>
    /\ showSettings

\* C10: the startup resolution returns the persisted key when there is one,
\* else the environment key when there is one, else nothing, and it opens
\* the settings exactly in the last case.
C10_LoadPriority ==
    last.op = "load"
        => /\ apiKey = (IF localStorage # <<>> THEN localStorage ELSE envKey)
           /\ showSettings = (localStorage = <<>> /\ envKey = <<>>)

C10_Witness ==
    /\ last.op = "load"
    /\ localStorage = <<"p">>
    /\ envKey = <<"e">>
    /\ apiKey = <<"p">>
    /\ ~showSettings

\* the App since its last clear, with no save and no reload in between
Cleared == lastKeyOp.op = "clear" /\ mounted /\ apiKey = <<>>

\* C11: a clear removes the persisted key and leaves no active credential;
\* from then on, until a save or a reload, the credential stays absent and
\* every search that is started issues no generation call, with or without
\* an environment key.
C11_ClearedSearchIssuesNoCall ==
    [][/\ last'.op = "handleClearKey"
           => (localStorage' = <<>> /\ apiKey' = <<>> /\ Cleared')
       /\ (Cleared /\ last'.op \notin {"handleSaveKey", "reload"})
           => Cleared'
       /\ (Cleared /\ last'.op = "handleSearch")
           => (calls' = {} /\ last'.res = "config")]_vars

C11_Witness ==
    /\ Cleared
    /\ envKey = <<"e">>
    /\ query = <<"a">>
    /\ last.op = "handleSearch"
    /\ last.res = "config"
    /\ calls = {}

\* ------------------------------------------- toggleFilter on its own
\* the values toggleFilter(key, value) is applied to
ToggleValues(k) ==
    IF k = "mainIngredient" THEN IngredientTexts \ {<<>>} ELSE ChipValues(k)

FilterStates ==
    {f \in [FilterKeys -> UNION {ToggleValues(k) : k \in FilterKeys} \cup {<<>>}] :
        \A k \in FilterKeys : f[k] \in ToggleValues(k) \cup {<<>>}}

InitToggle ==
    /\ variant \in {"keyed", "env"}
    /\ envKey = <<>>
    /\ localStorage = <<>>
    /\ mounted = TRUE
    /\ query = <<>>
    /\ filters \in FilterStates
    /\ loading = FALSE
    /\ recipe = Null
    /\ error = Null
    /\ apiKey = <<>>
    /\ showSettings = FALSE
    /\ pending = EmptyBag
    /\ calls = {}
    /\ lastKeyOp = KeyOp("none", <<>>)
    /\ last = UiStep("init", <<>>)
    /\ relay = RelayIdle("chat.js")

NextToggle == \E k \in FilterKeys : \E v \in ToggleValues(k) : toggleFilter(k, v)

SpecToggle == InitToggle /\ [][NextToggle]_vars

\* C12 as written: toggling a key to its active value empties it, toggling
\* it to another value stores that value, the other keys keep their values,
\* and toggling the same value once more gives the FilterState before the
\* first toggle.
C12_ToggleTwiceRestores ==
    [][last'.op = "toggleFilter" =>
        LET key == last'.arg[1]
            value == Tail(last'.arg)
        IN /\ filters[key] = value => filters'[key] = <<>>
           /\ filters[key] # value => filters'[key] = value
           /\ \A k \in FilterKeys \ {key} : filters'[k] = filters[k]
           /\ Toggled(filters', key, value) = filters]_vars

\* C12 amended: as above, but the second toggle of the same value gives the
\* FilterState before the first toggle only when the key was empty or held
\* that value; when it held another value the key ends empty.
C12_ToggleSingleSelect ==
    [][last'.op = "toggleFilter" =>
        LET key == last'.arg[1]
            value == Tail(last'.arg)
        IN /\ filters[key] = value => filters'[key] = <<>>
           /\ filters[key] # value => filters'[key] = value
           /\ \A k \in FilterKeys \ {key} : filters'[k] = filters[k]
           /\ filters[key] \in {<<>>, value}
                  => Toggled(filters', key, value) = filters
           /\ filters[key] \notin {<<>>, value}
                  => Toggled(filters', key, value) =
                         [filters EXCEPT ![key] = <<>>]]_vars

\* a toggle that replaced one cuisine by the other, next to other filters
C12_Witness ==
    /\ last.op = "toggleFilter"
    /\ last.arg = <<"cuisine", "c1">>
    /\ filters.cuisine = <<"c1">>
    /\ filters.difficulty = <<"d2">>
    /\ filters.mainIngredient = <<"a">>

\* the three failure classifications
Failures == {"InvalidCredential", "RateLimited", "GenerationFailure"}

\* C13: no search issues more than one text call or more than one image
\* call; generation calls are issued only by a search the user starts and
\* by the one image request that follows its text response; a step that
\* classifies a failure issues no call and ends its search, which leaves
\* nothing behind to issue one later.
C13_NoAutomaticRetry ==
    [][/\ \A s \in BagToSet(pending') : s.nText <= 1 /\ s.nImage <= 1
       /\ calls' # {} =>
              \/ last'.op = "handleSearch" /\ last'.res = "issued"
              \/ /\ last'.op = "textResolved" /\ last'.res = "imageIssued"
                 /\ \A c \in calls' : c.kind = "image"
                 /\ Cardinality(calls') = 1
       /\ last'.res \in Failures =>
              /\ calls' = {}
              /\ InFlight' = InFlight - 1
              /\ \A s \in BagToSet(pending') :
                     CopiesIn(s, pending') <= CopiesIn(s, pending)]_vars

C13_Witness ==
    /\ variant = "keyed"
    /\ last.op = "textRejected"
    /\ last.res = "RateLimited"
    /\ calls = {}
    /\ pending = EmptyBag
    /\ ~loading

\* ------------------------------------- the relay endpoint: handler(req)
MethodNotAllowed == 405
Ok == 200
InternalError == 500

Methods == {"GET", "OPTIONS", "PUT", "POST"}

\* the body of the request: not JSON, or { messages, apiKey, model } with
\* apiKey and model present or not
RequestBodies ==
    {[json |-> FALSE, apiKey |-> <<>>, model |-> <<>>]} \cup
    {[json |-> TRUE, apiKey |-> k, model |-> m] :
        k \in {<<>>, <<"k">>}, m \in {<<>>, <<"m">>}}

\* the key and the models written in the handlers
DefaultKey == <<"sk-default">>
DefaultModel(file) == IF file = "chat.js" THEN <<"mimilm">> ELSE <<"mimo-v2-flash">>

\* what the provider answers: a status and a body (compact JSON, JSON with
\* white space, or text that is not JSON)
UpstreamStatuses == {200, 201, 401, 403, 429, 500}
CompactJson == <<"{", "choices", "}">>
SpacedJson == <<"{", " ", "choices", " ", "}">>
PlainText == <<"Unauthorized">>
UpstreamBodies == {CompactJson, SpacedJson, PlainText}

UpstreamResponses ==
    {[status |-> st, body |-> b] : st \in UpstreamStatuses, b \in UpstreamBodies}

\* response.ok
ResponseOk(r) == r.status \in 200..299

\* response.json(): the members of the object the body holds
ResponseJson(body) ==
    LET toks == SelectSeq(body, LAMBDA t : t # " ") IN
    IF Len(toks) >= 2 /\ Head(toks) = "{" /\ toks[Len(toks)] = "}"
    THEN [ok |-> TRUE, value |-> SubSeq(toks, 2, Len(toks) - 1)]
    ELSE [ok |-> FALSE, value |-> <<>>]

\* JSON.stringify of an object held as its members
JSONstringify(members) == <<"{">> \o members \o <<"}">>

\* JSON.stringify({ error: message })
ErrorBody(message) == JSONstringify(<<"error", ":">> \o message)

\* JSON.stringify({ error: `Provider Error: ${response.status}`, details: errorText })
ProviderErrorBody(status, errorText) ==
    JSONstringify(<<"error", ":", "Provider Error: ", ToString(status), ",",
                    "details", ":">> \o errorText)

Respond(status, body) == Some([status |-> status, body |-> body])

\* the state of the Apps, which the relay does not touch
RelayFrame ==
    UNCHANGED <<variant, envKey, localStorage, mounted, query, filters, loading,
                recipe, error, apiKey, showSettings, pending, calls,
                lastKeyOp, last>>

\* if (req.method !== 'POST') return new Response(..., { status: 405 })
Reject(method) ==
    relay' = [RelayIdle(relay.file) EXCEPT
                 !.pc = "done", !.method = method,
                 !.response = Respond(MethodNotAllowed,
                                      ErrorBody(<<"Method Not Allowed">>))]

\* try { await req.json(); ... await fetch(API_URL, ...) }
Forward(method, body) ==
    IF ~body.json
    THEN relay' = [RelayIdle(relay.file) EXCEPT
                      !.pc = "done", !.method = method,
                      !.response = Respond(InternalError,
                                           ErrorBody(<<"SyntaxError">>))]
    ELSE relay' = [RelayIdle(relay.file) EXCEPT
                      !.pc = "fetching", !.method = method,
                      !.forwarded = Some(
                          [auth |-> IF body.apiKey # <<>> THEN body.apiKey
                                    ELSE DefaultKey,
                           model |-> IF relay.file = "part_001" /\ body.model # <<>>
                                     THEN body.model
                                     ELSE DefaultModel(relay.file)])]

\* the handler turning away GET requests only
handlerGetOnly(method, body) ==
    /\ relay.pc \in {"idle", "done"}
    /\ IF method = "GET" THEN Reject(method) ELSE Forward(method, body)
    /\ RelayFrame

\* handler(req) up to its return or to the await of fetch
handler(method, body) ==
    /\ relay.pc \in {"idle", "done"}
    /\ IF method # "POST" THEN Reject(method) ELSE Forward(method, body)
    /\ RelayFrame

\* fetch resolves with the provider's response
FetchResolved(r) ==
    /\ relay.pc = "fetching"
    /\ relay' = [relay EXCEPT
           !.pc = "done",
           !.upstream = Some(r),
           !.response =
               IF ~ResponseOk(r)
               THEN Respond(r.status, ProviderErrorBody(r.status, r.body))
               ELSE IF ResponseJson(r.body).ok
                    THEN Respond(Ok, JSONstringify(ResponseJson(r.body).value))
                    ELSE Respond(InternalError, ErrorBody(<<"SyntaxError">>))]
    /\ RelayFrame

\* fetch rejects: catch (error)
FetchRejected ==
    /\ relay.pc = "fetching"
    /\ relay' = [relay EXCEPT
           !.pc = "done",
           !.response = Respond(InternalError, ErrorBody(<<"fetch failed">>))]
    /\ RelayFrame

InitRelay ==
    /\ variant = "env"
    /\ envKey = <<>>
    /\ localStorage = <<>>
    /\ mounted = TRUE
    /\ FreshState
    /\ calls = {}
    /\ lastKeyOp = KeyOp("none", <<>>)
    /\ last = UiStep("init", <<>>)
    /\ relay \in {RelayIdle(file) : file \in RelayFiles}

NextRelay ==
    \/ \E method \in Methods : \E body \in RequestBodies : handler(method, body)
    \/ \E r \in UpstreamResponses : FetchResolved(r)
    \/ FetchRejected

SpecRelay == InitRelay /\ [][NextRelay]_vars

\* C14: a request to the relay whose method is not POST is answered with
\* status 405, and nothing is forwarded to the provider for it.
C14_NonPostIs405 ==
    relay.method \notin {"", "POST"}
        => /\ relay.pc = "done"
           /\ relay.response # <<>>
           /\ relay.response[1].status = MethodNotAllowed
           /\ relay.forwarded = <<>>
           /\ relay.upstream = <<>>

C14_Witness ==
    /\ relay.file = "part_001"
    /\ relay.method = "OPTIONS"
    /\ relay.pc = "done"
    /\ relay.response = Respond(MethodNotAllowed, ErrorBody(<<"Method Not Allowed">>))
    /\ relay.forwarded = <<>>

\* C15: when the provider answers with a failure status the relay answers
\* with the same status and the same body; when the provider answers with
\* success and a JSON body the relay answers with status 200 and that JSON.
C15_UpstreamVerbatim ==
    (relay.pc = "done" /\ relay.upstream # <<>>)
        => LET r == relay.upstream[1]
               out == relay.response[1]
           IN IF ~ResponseOk(r)
              THEN out.status = r.status /\ out.body = r.body
              ELSE ResponseJson(r.body).ok
                       => /\ out.status = Ok
                          /\ ResponseJson(out.body) = ResponseJson(r.body)

\* C16: apart from a reload, a step leaves the recipe as it is, sets it to
\* null when it starts a search that passed validation, or sets it to a new
\* record when it ends a search with success; and the recipe is null while
\* a search is in flight.
C16_RecipeReplacedWholesale ==
    [][last'.op # "reload" =>
        /\ \/ recipe' = recipe
           \/ recipe' = Null /\ last'.op = "handleSearch" /\ last'.res = "issued"
           \/ recipe' # Null /\ last'.res = "recipe"
        /\ InFlight' > 0 => recipe' = Null]_vars

\* C17: the step that ends a search (its last provider call has settled)
\* leaves the loading flag false and a recipe or an error set.
C17_SearchEndsWithResult ==
    [][(InFlight' < InFlight /\ last'.op # "reload")
        => /\ ~loading'
           /\ (recipe' # Null \/ error' # Null)]_vars

\* C18: no recipe is set from a text body that lacks one of title, summary,
\* ingredients and steps: every recipe held has the four of them.
C18_RecipeHasRequiredFields ==
    recipe # Null => RequiredFields \subseteq DOMAIN recipe[1]

\* the message each failing outcome sets
OutcomeError(step) ==
    CASE step.res = "validation" -> {ErrValidation}
      [] step.res = "InvalidCredential" -> {ErrInvalidKey}
      [] step.res = "RateLimited" -> {ErrRateLimited}
      [] step.res = "GenerationFailure" -> {ErrGeneric, ErrGeneration(step.arg)}
      [] OTHER -> {}

\* C19: a step with a validation, invalid-credential, rate-limited or
\* generation-failure outcome sets the error to the message of that outcome
\* whatever the error was; a step that starts a search that passed
\* validation sets the error to null; and after a step that ends a search
\* with success the error is null.
C19_SingleCurrentError ==
    [][/\ last'.res \in Failures \cup {"validation"} => error' \in OutcomeError(last')
       /\ last'.res = "issued" => error' = Null
       /\ last'.res = "recipe" => error' = Null]_vars

\* C20: a search turned away before any call, for want of a credential or
\* of a query and a main ingredient, leaves the recipe, the loading flag,
\* the filters, the query and the credential as they were, issues no call
\* and starts no search.
C20_RejectedSearchFrame ==
    [][(last'.op = "handleSearch" /\ last'.res \in {"config", "validation"})
        => /\ UNCHANGED <<recipe, loading, filters, query, apiKey, localStorage,
                          envKey, pending>>
           /\ calls' = {}]_vars

\* a recipe and an error held together, after a search turned away
C20_Witness ==
    /\ last.op = "handleSearch"
    /\ last.res = "validation"
    /\ recipe # Null
    /\ error = ErrValidation
    /\ ~loading

====
